---- MODULE Spec2Model ----
(***************************************************************************)
(* A model of the MCP playground client: the sidebar widgets of            *)
(* src/client/ui_components/sidebar_components.py acting on Streamlit's    *)
(* session state, together with the services they call.  The services     *)
(* (services.mcp_service, services.chat_service, utils.async_helpers) are  *)
(* modelled from the contracts of spec.md sections 4.1, 4.2 and 4.4.       *)
(*                                                                         *)
(* Streamlit re-runs the script after every interaction; each widget       *)
(* function is one action taking the user's input as its parameter.        *)
(***************************************************************************)
EXTENDS Integers, Sequences, FiniteSets, TLC

VARIABLES
    servers,            \* st.session_state.servers: configured names, dict order
    agent,              \* st.session_state.agent is set
    sessions,           \* live server sessions, in connection order
    tools,              \* st.session_state.tools: the catalog's descriptors
    routing,            \* tool name -> owning session
    selected_tool_name, \* st.session_state.selected_tool_name, or Absent
    ga_accounts,        \* st.session_state.ga_accounts, or Absent
    model_id,           \* st.session_state.params['model_id']
    last_connect,       \* the configuration and catalog of the last successful connect
    conn_ev,            \* what the last connection operation did
    history_chats,      \* st.session_state["history_chats"], storage order
    current_chat_id,    \* st.session_state["current_chat_id"], or NoChat
    current_chat_index, \* st.session_state["current_chat_index"]
    next_chat_id,       \* the next fresh chat identifier
    n_creates,          \* chats created so far
    n_deletes,          \* deletions so far
    chat_ev,            \* what the last chat operation did
    loop,               \* st.session_state.loop, or NoLoop
    thread,             \* the thread the script is running on
    thread_loop,        \* each thread's current event loop (asyncio.set_event_loop)
    n_loops,            \* event loops created so far
    n_entries,          \* entries of main() so far
    exit_funcs,         \* what atexit has registered, in order
    shutdown_runs,      \* executions of the shutdown hook
    running,            \* the process has not terminated
    frames,             \* the run calls in progress, outermost first
    bridge_ev,          \* what the last asynchronous unit of work did
    ga_ev               \* what the last call of the GA4 server's list_ga_accounts did

conn_vars == <<servers, agent, sessions, tools, routing, selected_tool_name,
               ga_accounts, model_id, last_connect, conn_ev>>
chat_vars == <<history_chats, current_chat_id, current_chat_index,
               next_chat_id, n_creates, n_deletes, chat_ev>>
bridge_vars == <<loop, thread, thread_loop, n_loops, n_entries, exit_funcs,
                 shutdown_runs, running, frames, bridge_ev>>
ga_vars == <<ga_ev>>
vars == <<servers, agent, sessions, tools, routing, selected_tool_name,
          ga_accounts, model_id, last_connect, conn_ev, history_chats, current_chat_id,
          current_chat_index, next_chat_id, n_creates, n_deletes, chat_ev,
          loop, thread, thread_loop, n_loops, n_entries, exit_funcs,
          shutdown_runs, running, frames, bridge_ev, ga_ev>>

(***************************************************************************)
(* Bounds of the model.                                                    *)
(***************************************************************************)
MaxServers == 2
Preload == 49
MaxCreates == 3
MaxDeletes == 2
MaxEntries == 3
MaxThreads == 2
MaxDepth == 2
MaxCalls == 1
MaxSummaries == 2
MaxProperties == 2

(***************************************************************************)
(* Helpers on sequences.                                                   *)
(***************************************************************************)
Range(s) == {s[i] : i \in DOMAIN s}

Min(a, b) == IF a < b THEN a ELSE b

Reverse(s) == [i \in 1..Len(s) |-> s[Len(s) + 1 - i]]

Absent == "absent"

(***************************************************************************)
(* The tool servers the client can be configured with: test doubles that   *)
(* publish fixed tool lists.  B shadows A on "foo" and G shadows B on      *)
(* "run_ga_report"; B alone offers a "ga" tool without list_ga_accounts.   *)
(***************************************************************************)
ServerNames == {"A", "B", "G"}

Publishes(s) ==
    CASE s = "A" -> <<"foo">>
      [] s = "B" -> <<"foo", "run_ga_report">>
      [] OTHER   -> <<"list_ga_accounts", "run_ga_report">>

ToolNames == UNION {Range(Publishes(s)) : s \in ServerNames}

\* A name no server publishes.
UnknownTool == "baz"

\* "ga" in selected_tool_name, tabulated over the names of the model.
ContainsGa(name) == name \in {"list_ga_accounts", "run_ga_report"}

\* What a server answers to a call: a payload, or an error with its message.
Payloads == {<<"p1">>, <<"p1", "p2">>}

ErrorMessages == {"PermissionDenied", "Timeout"}

OkResponse(v) == [kind |-> "ok", value |-> v, msg |-> ""]

ErrorResponse(m) == [kind |-> "error", value |-> <<>>, msg |-> m]

Responses == {OkResponse(v) : v \in Payloads} \cup {ErrorResponse(m) : m \in ErrorMessages}

NoResponse == [kind |-> "none", value |-> <<>>, msg |-> ""]

\* The configurations a client can start with: distinct names, in dict order.
ConfigOrders ==
    {c \in UNION {[1..n -> ServerNames] : n \in 0..Min(MaxServers, Cardinality(ServerNames))} :
        \A i, j \in DOMAIN c : i # j => c[i] # c[j]}

EmptyRouting == [n \in {} |-> ""]

\* ga_accounts: 'ga_accounts' not in st.session_state, or its value.
NoAccounts == [set |-> FALSE, value |-> <<>>]

Accounts(v) == [set |-> TRUE, value |-> v]

(***************************************************************************)
(* Catalog aggregation (spec.md 4.2).                                      *)
(***************************************************************************)
Descriptor(name, owner) == [name |-> name, owner |-> owner]

tool_names(ts) == [i \in DOMAIN ts |-> ts[i].name]

\* put, as plain concatenation: both entries of a colliding name are kept.
put_concatenate(cat, d) == Append(cat, d)

\* One merge step: a later entry overwrites the earlier entry of its name.
put(cat, d) ==
    IF \E i \in DOMAIN cat : cat[i].name = d.name
    THEN [i \in DOMAIN cat |-> IF cat[i].name = d.name THEN d ELSE cat[i]]
    ELSE Append(cat, d)

RECURSIVE put_all(_, _, _)
put_all(cat, owner, names) ==
    IF names = <<>> THEN cat
    ELSE put_all(put(cat, Descriptor(Head(names), owner)), owner, Tail(names))

\* The routing map's merge step: the later session takes the name over.
route(map, name, owner) ==
    [n \in DOMAIN map \cup {name} |-> IF n = name THEN owner ELSE map[n]]

RECURSIVE route_all(_, _, _)
route_all(map, owner, names) ==
    IF names = <<>> THEN map
    ELSE route_all(route(map, Head(names), owner), owner, Tail(names))

EmptyCatalog == [tools |-> <<>>, routing |-> EmptyRouting]

RECURSIVE aggregate(_)
\* per_server: the sessions in connection order; each publishes its list.
aggregate(per_server) ==
    IF per_server = <<>> THEN EmptyCatalog
    ELSE LET n    == Len(per_server)
             rest == aggregate(SubSeq(per_server, 1, n - 1))
         IN  [tools   |-> put_all(rest.tools, per_server[n], Publishes(per_server[n])),
              routing |-> route_all(rest.routing, per_server[n], Publishes(per_server[n]))]

(***************************************************************************)
(* Server Connection Manager (spec.md 4.1).                                *)
(***************************************************************************)
\* The connection state a connect or a reset leaves behind, with what it
\* opened and closed on the way.
Disconnected(opened, closed, status, failed_at) ==
    [agent |-> FALSE, sessions |-> <<>>, tools |-> <<>>, routing |-> EmptyRouting,
     opened |-> opened, closed |-> closed, status |-> status, failed_at |-> failed_at]

Connected(opened) ==
    LET cat == aggregate(opened)
    IN  [agent |-> TRUE, sessions |-> opened, tools |-> cat.tools, routing |-> cat.routing,
         opened |-> opened, closed |-> {}, status |-> "ok", failed_at |-> ""]

RECURSIVE connect_from(_, _, _)
\* Endpoint by endpoint, in configuration order: the first endpoint that
\* fails ends the attempt, and the sessions opened before it are released.
connect_from(configs, failing, opened) ==
    IF Len(opened) = Len(configs) THEN Connected(opened)
    ELSE LET next == configs[Len(opened) + 1]
         IN  IF next \in failing
             THEN Disconnected(opened, Range(opened), "ConnectionError", next)
             ELSE connect_from(configs, failing, Append(opened, next))

connect_to_mcp_servers(configs, failing) == connect_from(configs, failing, <<>>)

\* reset_connection_state, closing the sessions but leaving their catalog.
reset_connection_state_keep_catalog(open, close_failing) ==
    [Disconnected(<<>>, Range(open),
                  IF Range(open) \cap close_failing = {} THEN "ok" ELSE "CloseError", "")
        EXCEPT !.tools = aggregate(open).tools, !.routing = aggregate(open).routing]

\* Best effort: every open session is asked to close, whether or not an
\* earlier close failed; the state is reset regardless.
reset_connection_state(open, close_failing) ==
    Disconnected(<<>>, Range(open),
                 IF Range(open) \cap close_failing = {} THEN "ok" ELSE "CloseError", "")

(***************************************************************************)
(* Tool Catalog & Dispatcher (spec.md 4.2) and the tools widget's lookup.  *)
(***************************************************************************)
NoTool == Descriptor("", "")

\* lookup, falling back to the first tool when the name is not found.
lookup_default(ts, name) ==
    IF \E i \in DOMAIN ts : ts[i].name = name
    THEN ts[CHOOSE i \in DOMAIN ts : ts[i].name = name /\
                \A j \in DOMAIN ts : ts[j].name = name => i <= j]
    ELSE IF ts # <<>> THEN ts[1] ELSE NoTool

\* next((t for t in tools if t.name == name), None): the first match.
lookup(ts, name) ==
    IF \E i \in DOMAIN ts : ts[i].name = name
    THEN ts[CHOOSE i \in DOMAIN ts : ts[i].name = name /\
                \A j \in DOMAIN ts : ts[j].name = name => i <= j]
    ELSE NoTool

Call(session, tool) == [session |-> session, tool |-> tool]

\* run_tool: one call to the session owning the tool, its answer handed back
\* as it came: the payload, or ToolExecutionError with the server's message.
run_tool(tool, response) ==
    [sent    |-> <<Call(tool.owner, tool.name)>>,
     outcome |-> IF response.kind = "ok" THEN "ok" ELSE "ToolExecutionError",
     value   |-> response.value,
     msg     |-> response.msg]

NotFoundResult == [sent |-> <<>>, outcome |-> "ToolNotFound", value |-> <<>>, msg |-> ""]

\* invoke(tool_name, arguments): by the routing map, without contacting any
\* server when the name has no owner.
invoke(map, name, response) ==
    IF name \notin DOMAIN map THEN NotFoundResult
    ELSE run_tool(Descriptor(name, map[name]), response)

\* fetch_ga_accounts, sending the call a second time when the first fails.
fetch_ga_accounts_retry(ts, response) ==
    LET list_tool == lookup(ts, "list_ga_accounts")
        r         == run_tool(list_tool, response)
    IN  IF list_tool = NoTool THEN NotFoundResult
        ELSE IF r.outcome = "ok" THEN r
        ELSE [r EXCEPT !.sent = r.sent \o r.sent]

\* The GA property selector's fetch: lookup of list_ga_accounts, then run_tool.
fetch_ga_accounts(ts, response) ==
    LET list_tool == lookup(ts, "list_ga_accounts")
    IN  IF list_tool # NoTool THEN run_tool(list_tool, response) ELSE NotFoundResult

(***************************************************************************)
(* The record of the last connection-side operation.                       *)
(***************************************************************************)
Snapshot == [servers |-> servers, agent |-> agent, sessions |-> sessions,
             tools |-> tools, routing |-> routing]

NoConnect == [valid |-> FALSE, servers |-> <<>>, tools |-> <<>>, routing |-> EmptyRouting,
              model_id |-> ""]

ConnEvent(op, outcome, pre) ==
    [op |-> op, outcome |-> outcome, pre |-> pre,
     failing |-> {}, failed_at |-> "", opened |-> <<>>, closed |-> {},
     target |-> "", sent |-> <<>>, response |-> NoResponse,
     value |-> <<>>, msg |-> "", prev_connect |-> NoConnect]

Providers == {"OpenAI", "Bedrock"}

InitConn ==
    /\ servers \in ConfigOrders
    /\ agent = FALSE
    /\ sessions = <<>>
    /\ tools = <<>>
    /\ routing = EmptyRouting
    /\ selected_tool_name = Absent
    /\ ga_accounts = NoAccounts
    /\ model_id = "OpenAI"
    /\ last_connect = NoConnect
    /\ conn_ev = ConnEvent("init", "ok", [servers |-> servers, agent |-> FALSE,
                     sessions |-> <<>>, tools |-> <<>>, routing |-> EmptyRouting])

\* Install, merging what the operation produced into the state it found
\* instead of replacing it.
Install_merge(r) ==
    /\ agent' = r.agent
    /\ sessions' = sessions \o r.sessions
    /\ tools' = tools \o r.tools
    /\ routing' = [n \in DOMAIN routing \cup DOMAIN r.routing |->
                      IF n \in DOMAIN r.routing THEN r.routing[n] ELSE routing[n]]

\* The connection state an operation of the Connection Manager leaves.
Install(r) ==
    /\ agent' = r.agent
    /\ sessions' = r.sessions
    /\ tools' = r.tools
    /\ routing' = r.routing

(***************************************************************************)
(* Execution Bridge (spec.md 4.3): the event loops of app.py and of the    *)
(* tools widget, the run calls in progress and the shutdown hook.          *)
(***************************************************************************)
NoLoop == 0

Threads == 1..MaxThreads

\* nest_asyncio.apply(): run_until_complete may be entered while the loop runs.
reentrant_unpatched == FALSE

reentrant == TRUE

BridgeEvent(op, lp, depth, outcome, work) ==
    [op |-> op, loop |-> lp, depth |-> depth, outcome |-> outcome, work |-> work]

\* Before the first entry of main().
InitBridge ==
    /\ loop = NoLoop
    /\ thread = 1
    /\ thread_loop = [t \in Threads |-> NoLoop]
    /\ n_loops = 0
    /\ n_entries = 0
    /\ exit_funcs = <<>>
    /\ shutdown_runs = 0
    /\ running = TRUE
    /\ frames = <<>>
    /\ bridge_ev = BridgeEvent("init", NoLoop, 0, "none", "none")

\* After the first entry of main(), on thread 1.
InitEntered ==
    /\ loop = 1
    /\ thread = 1
    /\ thread_loop = [t \in Threads |-> IF t = 1 THEN 1 ELSE NoLoop]
    /\ n_loops = 1
    /\ n_entries = 1
    /\ exit_funcs = <<"on_shutdown">>
    /\ shutdown_runs = 0
    /\ running = TRUE
    /\ frames = <<>>
    /\ bridge_ev = BridgeEvent("init", NoLoop, 0, "none", "none")

\* The script is between two interactions: alive, entered, no run in progress.
Rendering ==
    /\ running
    /\ n_entries > 0
    /\ frames = <<>>

\* main(), entered on thread t: the loop is created and made t's current
\* loop when the session has none; on_shutdown is registered on every entry.
Main(t) ==
    /\ running
    /\ frames = <<>>
    /\ n_entries < MaxEntries
    /\ thread' = t
    /\ IF loop = NoLoop
       THEN /\ loop' = n_loops + 1
            /\ n_loops' = n_loops + 1
            /\ thread_loop' = [thread_loop EXCEPT ![t] = n_loops + 1]
       ELSE UNCHANGED <<loop, n_loops, thread_loop>>
    /\ exit_funcs' = Append(exit_funcs, "on_shutdown")
    /\ n_entries' = n_entries + 1
    /\ UNCHANGED <<shutdown_runs, running, frames, bridge_ev>>
    /\ UNCHANGED conn_vars
    /\ UNCHANGED chat_vars
    /\ UNCHANGED ga_vars

\* The loop asyncio.run gives the work on thread t: the thread's current
\* loop, or a new one made current when the thread has none.
asyncio_run_loop(t) ==
    IF thread_loop[t] # NoLoop THEN thread_loop[t] ELSE n_loops + 1

\* asyncio.run(work) of the tools widget, the work ending with outcome.
asyncio_run(outcome) ==
    LET used == asyncio_run_loop(thread)
    IN  /\ n_loops' = IF thread_loop[thread] = NoLoop THEN n_loops + 1 ELSE n_loops
        /\ thread_loop' = [thread_loop EXCEPT ![thread] = used]
        /\ bridge_ev' = BridgeEvent("asyncio.run", used, 1, outcome, outcome)
        /\ UNCHANGED <<loop, thread, n_entries, exit_funcs, shutdown_runs, running, frames>>

\* A run call in progress: the nested run calls its work still makes, and
\* how the work ended.
Frame(todo) == [todo |-> todo, state |-> "running", outcome |-> "none"]

WorkOutcomes == {"result", "exception"}

\* The nested calls the work of a run at this depth may make.
NestedCalls(depth) == 0..(IF depth < MaxDepth THEN MaxCalls ELSE 0)

\* run(awaitable) from synchronous code: the work goes to the shared loop.
RunCall(todo) ==
    /\ Rendering
    /\ todo \in NestedCalls(1)
    /\ frames' = <<Frame(todo)>>
    /\ UNCHANGED <<loop, thread, thread_loop, n_loops, n_entries, exit_funcs,
                   shutdown_runs, running, bridge_ev>>
    /\ UNCHANGED conn_vars
    /\ UNCHANGED chat_vars
    /\ UNCHANGED ga_vars

\* run(awaitable) from work that is running inside the loop: the loop is
\* entered again for the inner work, or refuses with RuntimeError when it
\* is not reentrant.
NestedRun(todo) ==
    LET d   == Len(frames)
    IN  /\ running
        /\ d >= 1
        /\ frames[d].state = "running"
        /\ frames[d].todo > 0
        /\ todo \in NestedCalls(d + 1)
        /\ frames' = IF reentrant
                     THEN Append([frames EXCEPT ![d].todo = @ - 1], Frame(todo))
                     ELSE [frames EXCEPT ![d].state = "done", ![d].outcome = "RuntimeError"]
        /\ UNCHANGED <<loop, thread, thread_loop, n_loops, n_entries, exit_funcs,
                       shutdown_runs, running, bridge_ev>>
        /\ UNCHANGED conn_vars
        /\ UNCHANGED chat_vars
        /\ UNCHANGED ga_vars

\* The loop runs the innermost work to its end; the outer work waits in
\* its run call.
WorkStep(outcome) ==
    LET d == Len(frames)
    IN  /\ running
        /\ d >= 1
        /\ frames[d].state = "running"
        /\ frames[d].todo = 0
        /\ frames' = [frames EXCEPT ![d].state = "done", ![d].outcome = outcome]
        /\ UNCHANGED <<loop, thread, thread_loop, n_loops, n_entries, exit_funcs,
                       shutdown_runs, running, bridge_ev>>
        /\ UNCHANGED conn_vars
        /\ UNCHANGED chat_vars
        /\ UNCHANGED ga_vars

\* The innermost run call hands its work's result or exception to its caller.
Return ==
    LET d == Len(frames)
    IN  /\ running
        /\ d >= 1
        /\ frames[d].state = "done"
        /\ frames' = SubSeq(frames, 1, d - 1)
        /\ bridge_ev' = BridgeEvent("run", loop, d, frames[d].outcome, frames[d].outcome)
        /\ UNCHANGED <<loop, thread, thread_loop, n_loops, n_entries, exit_funcs,
                       shutdown_runs, running>>
        /\ UNCHANGED conn_vars
        /\ UNCHANGED chat_vars
        /\ UNCHANGED ga_vars

\* Process termination: atexit calls every registration it holds.
Terminate ==
    /\ running
    /\ frames = <<>>
    /\ running' = FALSE
    /\ shutdown_runs' = Len(exit_funcs)
    /\ bridge_ev' = BridgeEvent("shutdown", loop, 0, "none", "none")
    /\ UNCHANGED <<loop, thread, thread_loop, n_loops, n_entries, exit_funcs, frames>>
    /\ UNCHANGED conn_vars
    /\ UNCHANGED chat_vars
    /\ UNCHANGED ga_vars

(***************************************************************************)
(* create_mcp_connection_widget.                                           *)
(***************************************************************************)
\* "Remove <name>": del st.session_state.servers[name]; st.rerun().
RemoveServer(name) ==
    /\ name \in Range(servers)
    /\ servers' = SelectSeq(servers, LAMBDA n : n # name)
    /\ conn_ev' = [ConnEvent("remove", "ok", Snapshot) EXCEPT !.target = name]
    /\ UNCHANGED <<agent, sessions, tools, routing, selected_tool_name,
                   ga_accounts, model_id, last_connect>>
    /\ UNCHANGED chat_vars
    /\ UNCHANGED ga_vars
    /\ UNCHANGED bridge_vars

\* DisconnectClick, clearing only the agent the widget tests.
DisconnectClick_agent_only(close_failing) ==
    /\ agent
    /\ agent' = FALSE
    /\ conn_ev' = [ConnEvent("disconnect", "ok", Snapshot)
                      EXCEPT !.failing = close_failing, !.closed = {}]
    /\ UNCHANGED <<servers, sessions, tools, routing, selected_tool_name, ga_accounts,
                   model_id, last_connect>>
    /\ UNCHANGED chat_vars
    /\ UNCHANGED ga_vars
    /\ UNCHANGED bridge_vars

\* "Disconnect to MCP Servers", shown while st.session_state.agent is set.
DisconnectClick(close_failing) ==
    /\ agent
    /\ LET r == reset_connection_state(sessions, close_failing)
       IN  /\ Install(r)
           /\ conn_ev' = [ConnEvent("disconnect", r.status, Snapshot)
                             EXCEPT !.failing = close_failing, !.closed = r.closed]
    /\ UNCHANGED <<servers, selected_tool_name, ga_accounts, model_id, last_connect>>
    /\ UNCHANGED chat_vars
    /\ UNCHANGED ga_vars
    /\ UNCHANGED bridge_vars

\* ConnectClick, going on with the endpoints that do connect when one fails.
ConnectClick_subset(failing) ==
    /\ ~agent
    /\ LET r == connect_to_mcp_servers(SelectSeq(servers, LAMBDA n : n \notin failing), {})
           first == connect_to_mcp_servers(servers, failing)
       IN  /\ Install(r)
           /\ last_connect' = last_connect
           /\ conn_ev' = [ConnEvent("connect", first.status, Snapshot)
                             EXCEPT !.failing = failing, !.failed_at = first.failed_at,
                                    !.opened = r.opened, !.closed = r.closed,
                                    !.prev_connect = last_connect]
    /\ UNCHANGED <<servers, selected_tool_name, ga_accounts, model_id>>
    /\ UNCHANGED chat_vars
    /\ UNCHANGED ga_vars
    /\ UNCHANGED bridge_vars

\* "Connect to MCP Servers", shown while no agent is set.
ConnectClick(failing) ==
    /\ ~agent
    /\ LET r == connect_to_mcp_servers(servers, failing)
       IN  /\ Install(r)
           /\ last_connect' = IF r.status = "ok"
                              THEN [valid |-> TRUE, servers |-> servers,
                                    tools |-> r.tools, routing |-> r.routing,
                                    model_id |-> model_id]
                              ELSE last_connect
           /\ conn_ev' = [ConnEvent("connect", r.status, Snapshot)
                             EXCEPT !.failing = failing, !.failed_at = r.failed_at,
                                    !.opened = r.opened, !.closed = r.closed,
                                    !.prev_connect = last_connect]
    /\ UNCHANGED <<servers, selected_tool_name, ga_accounts, model_id>>
    /\ UNCHANGED chat_vars
    /\ UNCHANGED ga_vars
    /\ UNCHANGED bridge_vars

(***************************************************************************)
(* create_provider_select_widget: on_change=reset_connection_state.        *)
(***************************************************************************)
\* ProviderChange, storing the provider without the on_change callback.
ProviderChange_keep_connection(provider, close_failing) ==
    /\ provider # model_id
    /\ model_id' = provider
    /\ conn_ev' = [ConnEvent("provider", "ok", Snapshot)
                      EXCEPT !.failing = close_failing, !.target = provider]
    /\ UNCHANGED <<servers, agent, sessions, tools, routing, selected_tool_name,
                   ga_accounts, last_connect>>
    /\ UNCHANGED chat_vars
    /\ UNCHANGED ga_vars
    /\ UNCHANGED bridge_vars

ProviderChange(provider, close_failing) ==
    /\ provider # model_id
    /\ LET r == reset_connection_state(sessions, close_failing)
       IN  /\ Install(r)
           /\ conn_ev' = [ConnEvent("provider", r.status, Snapshot)
                             EXCEPT !.failing = close_failing, !.closed = r.closed,
                                    !.target = provider]
    /\ model_id' = provider
    /\ UNCHANGED <<servers, selected_tool_name, ga_accounts, last_connect>>
    /\ UNCHANGED chat_vars
    /\ UNCHANGED ga_vars
    /\ UNCHANGED bridge_vars

(***************************************************************************)
(* create_mcp_tools_widget.                                                *)
(***************************************************************************)
NoPick == "no pick"

\* The selectbox is on the page when the last run drew it: the catalog is
\* not empty and the persisted selection is one of its names.
SelectboxShown ==
    /\ tools # <<>>
    /\ selected_tool_name \in Range(tool_names(tools))

\* The selection the widget works with: on_tool_change stores the user's
\* pick before the run; a missing selection defaults to the first tool.
selection(pick) ==
    IF pick # NoPick THEN pick
    ELSE IF selected_tool_name = Absent THEN tools[1].name
    ELSE selected_tool_name

ToolsEvent(outcome, r) ==
    [ConnEvent("tools_widget", outcome, Snapshot)
        EXCEPT !.target = "list_ga_accounts", !.sent = r.sent, !.value = r.value,
               !.msg = r.msg]

create_mcp_tools_widget(pick, response) ==
    /\ tools # <<>>
    /\ pick # NoPick => SelectboxShown /\ pick \in Range(tool_names(tools))
    /\ LET sel == selection(pick)
       IN  /\ selected_tool_name' = sel
           /\ IF sel \notin Range(tool_names(tools))
              THEN \* [names].index(selected_tool_name) raises ValueError
                   /\ conn_ev' = [ConnEvent("tools_widget", "ValueError", Snapshot)
                                     EXCEPT !.target = sel]
                   /\ UNCHANGED ga_accounts
                   /\ UNCHANGED bridge_vars
              ELSE IF ContainsGa(sel) /\ ~ga_accounts.set
              THEN LET r == fetch_ga_accounts(tools, response)
                   IN  /\ ga_accounts' = Accounts(IF r.outcome = "ok" THEN r.value ELSE <<>>)
                       /\ conn_ev' = [ToolsEvent(r.outcome, r)
                                         EXCEPT !.response = IF r.sent = <<>> THEN NoResponse
                                                             ELSE response]
                       /\ IF r.sent # <<>>
                          THEN asyncio_run(IF r.outcome = "ok" THEN "result" ELSE "exception")
                          ELSE UNCHANGED bridge_vars
              ELSE /\ conn_ev' = [ConnEvent("tools_widget", "rendered", Snapshot)
                                     EXCEPT !.target = sel]
                   /\ UNCHANGED ga_accounts
                   /\ UNCHANGED bridge_vars
    /\ UNCHANGED <<servers, agent, sessions, tools, routing, model_id, last_connect>>
    /\ UNCHANGED chat_vars
    /\ UNCHANGED ga_vars

(***************************************************************************)
(* The rendering collaborator's intent invoke(tool_name, args).            *)
(***************************************************************************)
Invoke(name, response) ==
    /\ LET r == invoke(routing, name, response)
       IN  conn_ev' = [ConnEvent("invoke", r.outcome, Snapshot)
                          EXCEPT !.target = name, !.sent = r.sent, !.value = r.value,
                                 !.msg = r.msg,
                                 !.response = IF r.sent = <<>> THEN NoResponse ELSE response]
    /\ UNCHANGED <<servers, agent, sessions, tools, routing, selected_tool_name,
                   ga_accounts, model_id, last_connect>>
    /\ UNCHANGED chat_vars
    /\ UNCHANGED ga_vars
    /\ UNCHANGED bridge_vars

NextConn ==
    \/ \E name \in ServerNames : RemoveServer(name)
    \/ \E close_failing \in SUBSET Range(sessions) : DisconnectClick(close_failing)
    \/ \E failing \in SUBSET Range(servers) : ConnectClick(failing)
    \/ \E provider \in Providers, close_failing \in SUBSET Range(sessions) :
           ProviderChange(provider, close_failing)
    \/ \E pick \in ToolNames \cup {NoPick}, response \in Responses :
           create_mcp_tools_widget(pick, response)
    \/ \E name \in ToolNames \cup {UnknownTool}, response \in Responses :
           Invoke(name, response)

(***************************************************************************)
(* Chat Session Store (spec.md 4.4) and the history widgets.               *)
(***************************************************************************)
\* chat_history_menu[:50]
DisplayLimit == 50

\* current_chat_id when no chat is selected.
NoChat == 0

\* current_chat_index when no chat remains.
EmptyIndex == -1

\* A chat: its name is kept as the pieces "_::_" would split it into, its
\* messages as their number.
Chat(id, n_messages) ==
    [chat_id |-> id, chat_name |-> <<"New chat">>, messages |-> n_messages]

chat_ids(h) == {h[i].chat_id : i \in DOMAIN h}

\* f"{chat['chat_name']}_::_{chat['chat_id']}", as its "_::_"-separated pieces.
menu_entry(chat) == Append(chat.chat_name, chat.chat_id)

\* current_chat.split("_::_")[1]
entry_chat_id(entry) == entry[2]

\* truncate, as [50:]: the entries after the limit instead of those up to it.
truncate_skip(entries) == SubSeq(entries, DisplayLimit + 1, Len(entries))

truncate(entries) == SubSeq(entries, 1, Min(DisplayLimit, Len(entries)))

\* The radio's options: the first 50 stored chats, reversed.
chat_history_menu(h) ==
    Reverse(truncate([i \in DOMAIN h |-> menu_entry(h[i])]))

\* list_chats(limit): most recent first, truncated to limit.
list_chats(h, limit) == SubSeq(Reverse(h), 1, Min(limit, Len(h)))

\* The 0-based position of a chat in a list.
position(chats, id) ==
    IF \E i \in DOMAIN chats : chats[i].chat_id = id
    THEN (CHOOSE i \in DOMAIN chats : chats[i].chat_id = id) - 1
    ELSE EmptyIndex

ChatState(h, id, index) == [history_chats |-> h, current_chat_id |-> id,
                            current_chat_index |-> index]

\* create_chat(): a fresh identifier, at the front of the display order, selected.
create_chat(h, fresh) ==
    LET h2 == Append(h, Chat(fresh, 0))
    IN  ChatState(h2, fresh, position(list_chats(h2, DisplayLimit), fresh))

\* delete_chat, treating a missing id as the loss of the selection.
delete_chat_strict(st, id) ==
    LET h2 == SelectSeq(st.history_chats, LAMBDA c : c.chat_id # id)
    IN  IF id \in chat_ids(st.history_chats) /\ st.current_chat_id # id
        THEN ChatState(h2, st.current_chat_id, st.current_chat_index)
        ELSE IF h2 = <<>> THEN ChatState(h2, NoChat, EmptyIndex)
        ELSE ChatState(h2, NoChat, 0)

\* delete_chat(chat_id): a missing id is a no-op; deleting the current chat
\* selects the most recent remaining one, or clears the selection.
delete_chat(st, id) ==
    IF id \notin chat_ids(st.history_chats) THEN st
    ELSE LET h2 == SelectSeq(st.history_chats, LAMBDA c : c.chat_id # id)
         IN  IF st.current_chat_id # id
             THEN ChatState(h2, st.current_chat_id, st.current_chat_index)
             ELSE IF h2 = <<>> THEN ChatState(h2, NoChat, EmptyIndex)
             ELSE LET recent == list_chats(h2, DisplayLimit)[1].chat_id
                  IN  ChatState(h2, recent, position(list_chats(h2, DisplayLimit), recent))

Store == ChatState(history_chats, current_chat_id, current_chat_index)

NoStore == ChatState(<<>>, NoChat, EmptyIndex)

ChatEvent(op, outcome, id, pre) == [op |-> op, outcome |-> outcome, id |-> id, pre |-> pre]

InstallStore(st) ==
    /\ history_chats' = st.history_chats
    /\ current_chat_id' = st.current_chat_id
    /\ current_chat_index' = st.current_chat_index

\* The store after init: the chats the persistence collaborator loaded
\* (none, or Preload of them, oldest first, every other one with messages),
\* the most recent one selected.
InitChat ==
    /\ \E n \in {0, Preload} :
          /\ history_chats = [i \in 1..n |-> Chat(i, i % 2)]
          /\ current_chat_id = n
          /\ current_chat_index = IF n = 0 THEN EmptyIndex ELSE 0
          /\ next_chat_id = n + 1
    /\ n_creates = 0
    /\ n_deletes = 0
    /\ chat_ev = ChatEvent("init", "ok", NoChat, NoStore)

\* The options a user's click is drawn from: the front, the one after it,
\* the last one, and the one the radio's index names.
PickPositions(menu) ==
    {p \in {1, 2, Len(menu), current_chat_index + 1} : p \in DOMAIN menu}

\* create_history_chat_container: the radio over the history menu.
create_history_chat_container(pick) ==
    LET menu == chat_history_menu(history_chats)
    IN  /\ menu # <<>>
        /\ IF current_chat_index \notin 0..(Len(menu) - 1)
           THEN \* st.radio rejects an index outside its options
                /\ chat_ev' = ChatEvent("select", "IndexError", NoChat, NoStore)
                /\ UNCHANGED current_chat_id
           ELSE /\ pick \in PickPositions(menu)
                /\ current_chat_id' = entry_chat_id(menu[pick])
                /\ chat_ev' = ChatEvent("select", "ok", entry_chat_id(menu[pick]), NoStore)
        /\ UNCHANGED <<history_chats, current_chat_index, next_chat_id, n_creates,
                       n_deletes>>
        /\ UNCHANGED conn_vars
        /\ UNCHANGED bridge_vars
        /\ UNCHANGED ga_vars

\* create_sidebar_chat_buttons, "New Chat": create_chat(); st.rerun().
NewChatClick ==
    /\ n_creates < MaxCreates
    /\ InstallStore(create_chat(history_chats, next_chat_id))
    /\ next_chat_id' = next_chat_id + 1
    /\ n_creates' = n_creates + 1
    /\ chat_ev' = ChatEvent("create", "ok", next_chat_id, Store)
    /\ UNCHANGED n_deletes
    /\ UNCHANGED conn_vars
    /\ UNCHANGED bridge_vars
    /\ UNCHANGED ga_vars

\* The chat of the menu entry the radio's index names.
indexed_chat_id ==
    LET menu == chat_history_menu(history_chats)
    IN  IF current_chat_index + 1 \in DOMAIN menu
        THEN entry_chat_id(menu[current_chat_index + 1]) ELSE NoChat

\* delete_target, taken from the radio's index instead of current_chat_id.
delete_target_by_index == indexed_chat_id

\* create_sidebar_chat_buttons, "Delete Chat":
\* if delete_chat_button and st.session_state.get('current_chat_id').
delete_target == current_chat_id

DeleteChatClick ==
    /\ n_deletes < MaxDeletes
    /\ delete_target # NoChat
    /\ InstallStore(delete_chat(Store, delete_target))
    /\ n_deletes' = n_deletes + 1
    /\ chat_ev' = ChatEvent("delete_click", "ok", delete_target, Store)
    /\ UNCHANGED <<next_chat_id, n_creates>>
    /\ UNCHANGED conn_vars
    /\ UNCHANGED bridge_vars
    /\ UNCHANGED ga_vars

\* The ids a delete_chat(id) intent is drawn from: the oldest, the newest
\* and the current chat, the next fresh id (never created) and the id
\* deleted last.
IntentIds ==
    {id \in 1..next_chat_id :
        \/ id = next_chat_id
        \/ id \notin chat_ids(history_chats) /\ id = chat_ev.id
        \/ id \in chat_ids(history_chats) /\
              \/ id = current_chat_id
              \/ id = history_chats[1].chat_id
              \/ id = history_chats[Len(history_chats)].chat_id}

\* The rendering collaborator's intent delete_chat(id).
DeleteChat(id) ==
    /\ id \in IntentIds
    /\ id \in chat_ids(history_chats) => n_deletes < MaxDeletes
    /\ InstallStore(delete_chat(Store, id))
    /\ n_deletes' = IF id \in chat_ids(history_chats) THEN n_deletes + 1 ELSE n_deletes
    /\ chat_ev' = ChatEvent("delete", "ok", id, Store)
    /\ UNCHANGED <<next_chat_id, n_creates>>
    /\ UNCHANGED conn_vars
    /\ UNCHANGED bridge_vars
    /\ UNCHANGED ga_vars

NextChat ==
    \/ \E pick \in PickPositions(chat_history_menu(history_chats)) :
           create_history_chat_container(pick)
    \/ NewChatClick
    \/ DeleteChatClick
    \/ \E id \in IntentIds : DeleteChat(id)

(***************************************************************************)
(* The GA4 tool server (src/servers/ga4_server/main.py): list_accounts     *)
(* over what the Analytics Admin API answers.                              *)
(***************************************************************************)
\* The classes of google.api_core.exceptions the code names, a server error
\* of the API and an exception that is not a Google API error, each with
\* the classes it is an instance of.
Mro(class) ==
    CASE class = "PermissionDenied" ->
             {"PermissionDenied", "Forbidden", "ClientError", "GoogleAPICallError", "Exception"}
      [] class = "NotFound" ->
             {"NotFound", "ClientError", "GoogleAPICallError", "Exception"}
      [] class = "ServiceUnavailable" ->
             {"ServiceUnavailable", "ServerError", "GoogleAPICallError", "Exception"}
      [] class = "GoogleAPICallError" -> {"GoogleAPICallError", "Exception"}
      [] OTHER -> {class, "Exception"}

isinstance(e, class) == class \in Mro(e.class)

\* An exception: its class and its message, as the pieces it was built of.
Raised(class, message) == [class |-> class, message |-> message]

NoError == Raised("", <<>>)

ApiErrorClasses == {"PermissionDenied", "NotFound", "ServiceUnavailable", "RefreshError"}

ApiMessages == {<<"m1">>, <<"m2">>}

\* prop_summary: its display name and its resource name, split at "/".
PropertySummaries ==
    {[display_name |-> "web", property |-> <<"properties", "101">>],
     [display_name |-> "app", property |-> <<"properties", "202">>]}

\* summary: an account with no, one or more properties.
AccountSummaries ==
    {[display_name |-> n, property_summaries |-> ps] :
        n \in {"acme", "beta"},
        ps \in UNION {[1..k -> PropertySummaries] : k \in 0..MaxProperties}}

\* What list_account_summaries() does: it raises, or it yields summaries.
ApiAnswers ==
    {[raises |-> TRUE, error |-> Raised(c, m), results |-> <<>>] :
        c \in ApiErrorClasses, m \in ApiMessages}
    \cup
    {[raises |-> FALSE, error |-> NoError, results |-> r] :
        r \in UNION {[1..k -> AccountSummaries] : k \in 0..MaxSummaries}}

\* The entry appended for one property of one account.
account_entry(summary, prop_summary) ==
    [display_name |-> <<summary.display_name, " - ", prop_summary.display_name>>,
     property_id  |-> prop_summary.property[Len(prop_summary.property)]]

RECURSIVE accounts_of(_)
\* The loop over results: one entry per property, accounts in order.
accounts_of(results) ==
    IF results = <<>> THEN <<>>
    ELSE LET summary == Head(results)
         IN  [i \in DOMAIN summary.property_summaries |->
                  account_entry(summary, summary.property_summaries[i])]
             \o accounts_of(Tail(results))

Returns(value) == [kind |-> "return", value |-> value, error |-> NoError]

Raises(e) == [kind |-> "raise", value |-> <<>>, error |-> e]

NoAccountsMessage == <<"No Google Analytics accounts were found for your user. Please check your permissions.">>

\* The body of the try block.
try_list_accounts(api) ==
    IF api.raises THEN Raises(api.error)
    ELSE IF accounts_of(api.results) = <<>>
    THEN Raises(Raised("NotFound", NoAccountsMessage))
    ELSE Returns(accounts_of(api.results))

\* The except clauses in their order: the first whose class the exception
\* is an instance of handles it.
except(e) ==
    IF isinstance(e, "PermissionDenied")
    THEN Raises(Raised("PermissionDenied", <<"Permission Denied: ", "Original error: ">> \o e.message))
    ELSE IF isinstance(e, "GoogleAPICallError")
    THEN Raises(Raised("GoogleAPICallError",
                       <<"A Google API error occurred while listing accounts: ">> \o e.message))
    ELSE Raises(Raised("GoogleAPICallError",
                       <<"An unexpected error occurred while listing accounts: ">> \o e.message))

\* GA4Client.list_accounts
list_accounts(api) ==
    LET r == try_list_accounts(api)
    IN  IF r.kind = "raise" THEN except(r.error) ELSE r

NoGaCall == [op |-> "init", api |-> [raises |-> FALSE, error |-> NoError, results |-> <<>>],
             result |-> Returns(<<>>)]

InitGa == ga_ev = NoGaCall

\* The tool list_ga_accounts: list_accounts on a worker thread, its result
\* or its exception handed on as it is.
list_ga_accounts(api) ==
    /\ ga_ev' = [op |-> "list_ga_accounts", api |-> api, result |-> list_accounts(api)]
    /\ UNCHANGED conn_vars
    /\ UNCHANGED chat_vars
    /\ UNCHANGED bridge_vars

NextGa == \E api \in ApiAnswers : list_ga_accounts(api)

(***************************************************************************)
(* Specifications: the connection side and the chat store take their       *)
(* steps independently of each other.                                      *)
(***************************************************************************)
\* The connection side, over every configuration, with an empty chat store.
InitConnSide ==
    /\ InitGa
    /\ InitConn
    /\ InitChat
    /\ history_chats = <<>>
    /\ InitEntered

\* The chat store, empty or preloaded, with one fixed configuration.
InitChatSide ==
    /\ InitGa
    /\ InitChat
    /\ InitConn
    /\ servers = <<"A", "B">>
    /\ InitEntered

\* The bridge, from before the first entry of main(), with the GA server
\* configured and an empty chat store.
InitBridgeSide ==
    /\ InitGa
    /\ InitBridge
    /\ InitConn
    /\ servers = <<"G">>
    /\ InitChat
    /\ history_chats = <<>>

\* The re-entries of main(), the connect and the tools widget of a run, the
\* run calls of the bridge, and the end of the process.
NextBridge ==
    \/ \E t \in Threads : Main(t)
    \/ \E failing \in SUBSET Range(servers) : Rendering /\ ConnectClick(failing)
    \/ \E pick \in ToolNames \cup {NoPick}, response \in Responses :
           Rendering /\ create_mcp_tools_widget(pick, response)
    \/ \E todo \in 0..MaxCalls : RunCall(todo)
    \/ \E todo \in 0..MaxCalls : NestedRun(todo)
    \/ \E outcome \in WorkOutcomes : WorkStep(outcome)
    \/ Return
    \/ Terminate

SpecConn == InitConnSide /\ [][NextConn]_vars

SpecChat == InitChatSide /\ [][NextChat]_vars

\* The GA4 server on its own: the client at rest.
InitGaSide ==
    /\ InitGa
    /\ InitConn
    /\ servers = <<"G">>
    /\ InitChat
    /\ history_chats = <<>>
    /\ InitEntered

SpecGa == InitGaSide /\ [][NextGa]_vars

SpecBridge == InitBridgeSide /\ [][NextBridge]_vars

\* The loop runs the work it was given: a nested call the work makes is
\* made, work that is ready ends, and a finished run call returns.
SpecBridgeFair ==
    /\ InitBridgeSide
    /\ [][NextBridge]_vars
    /\ WF_vars(\E todo \in 0..MaxCalls : NestedRun(todo))
    /\ WF_vars(\E outcome \in WorkOutcomes : WorkStep(outcome))
    /\ WF_vars(Return)

(***************************************************************************)
(* Properties of the connection side, checked under SpecConn.              *)
(***************************************************************************)
ConnectionEmpty ==
    /\ ~agent
    /\ sessions = <<>>
    /\ tools = <<>>
    /\ routing = EmptyRouting

ConnectionFull ==
    /\ agent
    /\ sessions = servers
    /\ \A i \in DOMAIN sessions : \A t \in Range(Publishes(sessions[i])) :
          /\ t \in Range(tool_names(tools))
          /\ t \in DOMAIN routing

\* C1: when a connect-all returns, the connection state is fully populated
\* (every configured endpoint has a session and every tool its session
\* publishes is in the catalog) or fully empty; it is populated exactly when
\* no configured endpoint failed, and after a failure on the k-th endpoint
\* every session opened for endpoints 1..k-1 has been closed.
C1_ConnectAllOrNothing ==
    conn_ev.op = "connect" =>
        IF conn_ev.failing \cap Range(servers) = {}
        THEN conn_ev.outcome = "ok" /\ ConnectionFull
        ELSE /\ conn_ev.outcome = "ConnectionError"
             /\ conn_ev.failed_at \in conn_ev.failing
             /\ ConnectionEmpty
             /\ conn_ev.closed = Range(conn_ev.opened)

\* A connect that failed on its second endpoint, after the first had opened.
C1_Witness ==
    /\ conn_ev.op = "connect"
    /\ conn_ev.outcome = "ConnectionError"
    /\ Len(conn_ev.opened) = 1
    /\ conn_ev.failed_at = servers[2]
    /\ ConnectionEmpty

\* The last operation was a tool invocation: the invoke intent, or the
\* tools widget's fetch of the GA accounts.
Invoked ==
    \/ conn_ev.op = "invoke"
    \/ /\ conn_ev.op = "tools_widget"
       /\ conn_ev.outcome \in {"ok", "ToolExecutionError", "ToolNotFound"}

\* C2: an invocation of a name that is not in the catalog (also when
\* disconnected) ends with ToolNotFound, sends no call to any session and
\* leaves the connection state as it was.
C2_UnknownToolNotFound ==
    (Invoked /\ conn_ev.target \notin Range(tool_names(conn_ev.pre.tools))) =>
        /\ conn_ev.outcome = "ToolNotFound"
        /\ conn_ev.sent = <<>>
        /\ Snapshot = conn_ev.pre

\* The tools widget looked for list_ga_accounts in a catalog that holds a
\* "ga" tool but not that one.
C2_Witness ==
    /\ conn_ev.op = "tools_widget"
    /\ conn_ev.outcome = "ToolNotFound"
    /\ tools # <<>>
    /\ conn_ev.sent = <<>>

\* The position in connection order of the last session publishing a name.
LatestOwner(name) ==
    sessions[CHOOSE i \in DOMAIN sessions :
                /\ name \in Range(Publishes(sessions[i]))
                /\ \A j \in DOMAIN sessions :
                      name \in Range(Publishes(sessions[j])) => j <= i]

\* C3: the catalog holds exactly one entry per distinct tool name published
\* by the connected servers; that entry, the routing map and a lookup by
\* name all give the server latest in connection order.
C3_LatestServerShadows ==
    /\ \A i, j \in DOMAIN tools : tools[i].name = tools[j].name => i = j
    /\ Range(tool_names(tools)) = UNION {Range(Publishes(sessions[i])) : i \in DOMAIN sessions}
    /\ DOMAIN routing = Range(tool_names(tools))
    /\ \A i \in DOMAIN tools :
          /\ tools[i].owner = LatestOwner(tools[i].name)
          /\ routing[tools[i].name] = LatestOwner(tools[i].name)
          /\ lookup(tools, tools[i].name).owner = LatestOwner(tools[i].name)

\* A then B connected: the single "foo" belongs to B.
C3_Witness ==
    /\ sessions = <<"A", "B">>
    /\ Len(tools) = 2
    /\ tools[1] = Descriptor("foo", "B")
    /\ routing["foo"] = "B"

\* C4: an invocation of a name in the catalog sends exactly one call, to the
\* session the routing map gives for the name, and hands back that session's
\* answer: its payload as it is, or ToolExecutionError with its message.
C4_InvokeForwardsOnce ==
    (Invoked /\ conn_ev.target \in Range(tool_names(conn_ev.pre.tools))) =>
        /\ conn_ev.sent = <<Call(conn_ev.pre.routing[conn_ev.target], conn_ev.target)>>
        /\ conn_ev.sent[1].session \in Range(conn_ev.pre.sessions)
        /\ conn_ev.response.kind = "ok" =>
              /\ conn_ev.outcome = "ok"
              /\ conn_ev.value = conn_ev.response.value
              /\ conn_ev.op = "tools_widget" => ga_accounts = Accounts(conn_ev.response.value)
        /\ conn_ev.response.kind = "error" =>
              /\ conn_ev.outcome = "ToolExecutionError"
              /\ conn_ev.msg = conn_ev.response.msg
        /\ conn_ev.response.kind \in {"ok", "error"}

\* The widget's fetch reached the server and the server answered with an error.
C4_Witness ==
    /\ conn_ev.op = "tools_widget"
    /\ conn_ev.outcome = "ToolExecutionError"
    /\ conn_ev.msg = "PermissionDenied"
    /\ Len(conn_ev.sent) = 1

\* C5: a disconnect-all asks every open session to close, also when some of
\* the closes fail, and leaves no session, no catalog and no agent; from the
\* disconnected state it changes nothing and fails with nothing.
C5_DisconnectResets ==
    conn_ev.op \in {"disconnect", "provider"} =>
        /\ conn_ev.closed = Range(conn_ev.pre.sessions)
        /\ ConnectionEmpty
        /\ conn_ev.pre.sessions = <<>> =>
              /\ conn_ev.outcome = "ok"
              /\ [conn_ev.pre EXCEPT !.agent = FALSE] = Snapshot

\* A disconnect of two sessions, the close of one of them failing.
C5_Witness ==
    /\ conn_ev.op = "disconnect"
    /\ conn_ev.outcome = "CloseError"
    /\ Cardinality(conn_ev.closed) = 2
    /\ Cardinality(conn_ev.failing) = 1
    /\ ConnectionEmpty

\* C6: a successful connect that follows an earlier successful connect of
\* the same configurations gives the same catalog, entry for entry and in
\* the same order, and the same routing.
C6_ReconnectSameCatalog ==
    (/\ conn_ev.op = "connect"
     /\ conn_ev.outcome = "ok"
     /\ conn_ev.prev_connect.valid
     /\ conn_ev.prev_connect.servers = servers) =>
        /\ tools = conn_ev.prev_connect.tools
        /\ routing = conn_ev.prev_connect.routing

\* Connected a second time with the same two servers.
C6_Witness ==
    /\ conn_ev.op = "connect"
    /\ conn_ev.outcome = "ok"
    /\ conn_ev.prev_connect.valid
    /\ conn_ev.prev_connect.servers = servers
    /\ Len(servers) = 2
    /\ tools # <<>>

\* C16 (as claimed): every live session, and the owner of every tool of
\* the catalog, is a server that is still configured.
C16_SessionsHaveConfigs ==
    /\ Range(sessions) \subseteq Range(servers)
    /\ \A i \in DOMAIN tools : tools[i].owner \in Range(servers)

\* C17 (as claimed): the widget shows "connected" (st.session_state.agent)
\* exactly when there is a live session, and the number of servers it
\* reports (len(st.session_state.servers)) is the number of live sessions.
C17_StatusMatchesSessions ==
    /\ agent <=> sessions # <<>>
    /\ agent => Len(servers) = Len(sessions)

\* C18: the catalog is empty whenever there is no session, and every tool of
\* the catalog is routed, by the routing map, to a session of the session
\* set: the one that owns it.
C18_CatalogAgreesWithSessions ==
    /\ sessions = <<>> => (tools = <<>> /\ routing = EmptyRouting)
    /\ \A i \in DOMAIN tools :
          /\ tools[i].name \in DOMAIN routing
          /\ routing[tools[i].name] \in Range(sessions)
          /\ routing[tools[i].name] = tools[i].owner
    /\ \A n \in DOMAIN routing : routing[n] \in Range(sessions)

\* A connect that failed after an earlier connect had succeeded and had
\* been disconnected.
C18_Witness ==
    /\ conn_ev.op = "connect"
    /\ conn_ev.outcome = "ConnectionError"
    /\ conn_ev.prev_connect.valid
    /\ conn_ev.prev_connect.tools # <<>>
    /\ Len(conn_ev.opened) = 1
    /\ sessions = <<>>
    /\ tools = <<>>

\* C19 (as claimed): with a non-empty catalog the persisted selection, once
\* set, is the name of a tool of the catalog, and the tools widget never
\* fails on looking it up.
C19_SelectedToolInCatalog ==
    /\ conn_ev.outcome # "ValueError"
    /\ (tools # <<>> /\ selected_tool_name # Absent) =>
           selected_tool_name \in Range(tool_names(tools))

C7_IndexInRange ==
    /\ (current_chat_index = EmptyIndex) <=> (history_chats = <<>>)
    /\ history_chats # <<>> =>
          current_chat_index \in 0..(Len(chat_history_menu(history_chats)) - 1)

\* The current chat was deleted from a store of more chats than the limit.
C7_Witness ==
    /\ chat_ev.op = "delete_click"
    /\ Len(chat_ev.pre.history_chats) > DisplayLimit + 1
    /\ Len(history_chats) > DisplayLimit
    /\ current_chat_index = 0

\* C8 (as claimed): after a selection through the history radio the chat at
\* position current_chat_index of the displayed menu is the chat whose id is
\* current_chat_id.
C8_SelectionAtIndex ==
    (chat_ev.op = "select" /\ chat_ev.outcome = "ok") =>
        /\ current_chat_id = chat_ev.id
        /\ indexed_chat_id = current_chat_id

\* The most recently created chat of a store.
MostRecent(h) == CHOOSE id \in chat_ids(h) : \A other \in chat_ids(h) : other <= id

\* C9: deleting the current chat removes it and nothing else, and then the
\* most recent remaining chat is current, or no chat is and the index is the
\* empty sentinel when none remains; "Delete Chat" deletes the current chat.
C9_DeleteCurrentReselects ==
    LET pre == chat_ev.pre
        id  == pre.current_chat_id
    IN  (\/ chat_ev.op = "delete_click"
         \/ chat_ev.op = "delete" /\ chat_ev.id = id /\ id \in chat_ids(pre.history_chats)) =>
            /\ id \in chat_ids(pre.history_chats)
            /\ history_chats = SelectSeq(pre.history_chats, LAMBDA c : c.chat_id # id)
            /\ Len(history_chats) = Len(pre.history_chats) - 1
            /\ IF history_chats = <<>>
               THEN current_chat_id = NoChat /\ current_chat_index = EmptyIndex
               ELSE current_chat_id = MostRecent(history_chats)

\* "Delete Chat" on an older chat: the newest remaining chat became current.
C9_Witness ==
    /\ chat_ev.op = "delete_click"
    /\ Len(history_chats) >= 2
    /\ chat_ev.id < current_chat_id
    /\ current_chat_id = history_chats[Len(history_chats)].chat_id

\* C10: delete_chat of an id the store does not hold leaves the sessions,
\* their messages, current_chat_id and current_chat_index as they were.
C10_DeleteMissingNoOp ==
    (chat_ev.op = "delete" /\ chat_ev.id \notin chat_ids(chat_ev.pre.history_chats)) =>
        Store = chat_ev.pre

\* delete_chat of an id deleted before, on a store that holds a chat with a
\* message.
C10_Witness ==
    /\ chat_ev.op = "delete"
    /\ chat_ev.id \notin chat_ids(chat_ev.pre.history_chats)
    /\ chat_ev.id < next_chat_id
    /\ current_chat_id # NoChat
    /\ \E i \in DOMAIN history_chats : history_chats[i].messages > 0

\* C11 (as claimed): create_chat adds exactly one chat, under an id no chat
\* of the store had, keeps every chat it found with its messages, makes the
\* new chat current with the front index, and the new chat is the first
\* entry of the displayed menu.
C11_CreateFrontAndCurrent ==
    LET pre == chat_ev.pre.history_chats
        menu == chat_history_menu(history_chats)
    IN  chat_ev.op = "create" =>
            /\ chat_ev.id \notin chat_ids(pre)
            /\ Len(history_chats) = Len(pre) + 1
            /\ SelectSeq(history_chats, LAMBDA c : c.chat_id # chat_ev.id) = pre
            /\ current_chat_id = chat_ev.id
            /\ current_chat_index = 0
            /\ menu # <<>>
            /\ entry_chat_id(menu[1]) = chat_ev.id

\* C12 (as claimed): the displayed list holds the min(limit, n) most recently
\* created chats of the store, the most recent first; storage order is
\* creation order.
C12_MenuMostRecentFirst ==
    LET menu == chat_history_menu(history_chats)
        n    == Len(history_chats)
    IN  /\ Len(menu) = Min(DisplayLimit, n)
        /\ \A i \in DOMAIN menu : entry_chat_id(menu[i]) = history_chats[n + 1 - i].chat_id

(***************************************************************************)
(* Properties of the execution bridge, checked under SpecBridge and        *)
(* SpecBridgeFair.                                                         *)
(***************************************************************************)
\* C13 (as claimed): one event loop is created, on the first entry of
\* main(), and no other; every unit of asynchronous work, the tools widget's
\* tool invocation included, runs on that loop.
C13_OneSharedScheduler ==
    /\ n_loops <= 1
    /\ n_entries > 0 => loop # NoLoop
    /\ bridge_ev.op \in {"run", "asyncio.run"} => bridge_ev.loop = loop

\* C14: a run call made from work running inside the loop raises no
\* reentrancy error and hands its caller what the inner work ended with, and
\* every nested run call in progress eventually returns: the outer work is
\* never left waiting for an inner run that the loop does not drive.
C14_NestedRunCompletes ==
    /\ [](bridge_ev.op = "run" =>
             /\ bridge_ev.outcome \in WorkOutcomes
             /\ bridge_ev.outcome = bridge_ev.work)
    /\ [](\A i \in DOMAIN frames : frames[i].outcome # "RuntimeError")
    /\ \A d \in 2..MaxDepth : (Len(frames) >= d) ~> (Len(frames) < d)

\* A nested run call returned an exception to its caller, which is still
\* running inside the loop.
C14_Witness ==
    /\ bridge_ev.op = "run"
    /\ bridge_ev.depth = 2
    /\ bridge_ev.outcome = "exception"
    /\ Len(frames) = 1
    /\ frames[1].state = "running"

\* C15 (as claimed): at termination the shutdown hook runs at most once,
\* however often main() was entered.
C15_ShutdownAtMostOnce == shutdown_runs <= 1

(***************************************************************************)
(* Properties of the GA4 tool server, checked under SpecGa.                *)
(***************************************************************************)
\* C21 (as claimed): list_accounts returns at least one entry, one per
\* property in order, or fails, and the failure keeps its kind: a
\* permission failure is raised as PermissionDenied, the case of no account
\* as NotFound, any other failure as GoogleAPICallError with the original
\* message.
C21_ListAccountsKeepsKind ==
    LET api == ga_ev.api
        r   == ga_ev.result
    IN  ga_ev.op = "list_ga_accounts" =>
            /\ r.kind = "return" =>
                  /\ ~api.raises
                  /\ r.value # <<>>
                  /\ r.value = accounts_of(api.results)
            /\ (api.raises /\ api.error.class = "PermissionDenied") =>
                  (r.kind = "raise" /\ r.error.class = "PermissionDenied")
            /\ (~api.raises /\ accounts_of(api.results) = <<>>) =>
                  (r.kind = "raise" /\ r.error.class = "NotFound")
            /\ (api.raises /\ api.error.class # "PermissionDenied") =>
                  /\ r.kind = "raise"
                  /\ r.error.class = "GoogleAPICallError"
                  /\ SubSeq(r.error.message, Len(r.error.message) - Len(api.error.message) + 1,
                            Len(r.error.message)) = api.error.message

====
